---- MODULE Spec2Model ----
(***************************************************************************)
(* Riskia: occupational risk maps.                                         *)
(*                                                                         *)
(* Four parts of the program are modelled, each with its own               *)
(* specification over its own group of variables:                          *)
(*   Spec         the server: the tRPC procedures of server/routers.ts     *)
(*                over the persistence functions of server/db.ts, called   *)
(*                by any number of clients in any interleaving;            *)
(*   SpecDebounce the useDebounce hook on its own, with a clock;           *)
(*   SpecEditor   the RiskMapEditor page: drag, debounced save, the        *)
(*                updatePosition mutations in flight, and the store;       *)
(*   SpecLayout   generateDistributedPosition, in exact rational           *)
(*                arithmetic.                                              *)
(***************************************************************************)
EXTENDS Integers, Sequences, FiniteSets, TLC

VARIABLES
    \* ---- the store (MySQL tables risk_maps and risks)
    maps,         \* rows of risk_maps: [id, userId]
    risks,        \* rows of risks: [id, mapId, pos]
    nextMapId,    \* AUTO_INCREMENT of risk_maps.id
    nextRiskId,   \* AUTO_INCREMENT of risks.id
    deleting,     \* deleteRiskMap calls between their two DELETE statements
    lastGet,      \* the response of the riskMaps.get being answered, if any
    \* ---- useDebounce
    timers,       \* the pending setTimeout timers: [id, cb, args, remaining]
    timeoutRef,   \* timeoutRef.current: 0 (null) or a timer id
    nextTimerId,  \* the id the next setTimeout returns
    sinceCall,    \* clock ticks since the last call of the debounced function
    burstCalls,   \* number of calls of the current burst
    lastArgs,     \* the arguments of the last call, if any
    invoked,      \* arguments the callback was invoked with since the last call
    mounted,      \* the component that owns the hook is mounted
    \* ---- RiskMapEditor
    localRisks,   \* the risks state: riskId -> position shown
    mapId,        \* the mapId state (0 stands for null)
    pendingSaves, \* pendingSavesRef.current
    inFlight,     \* updatePosition mutations sent and not yet answered
    saveErrors,   \* number of saves that were rejected
    \* ---- generateDistributedPosition
    total,        \* identifiedRisks.length
    canvas,       \* mapDimensions: <<width, height>>
    placed,       \* number of hazards placed so far (the loop index i)
    first,        \* newRisks[0]: the first marker placed, if any
    cur,          \* the last element of newRisks when it has two or more
    \* ---- the store, the other columns of its rows
    mapCols,      \* map id -> [title, floorPlanSvg, width]
    riskCols,     \* risk id -> [type, severity, label, radius, color, updatedAt]
    now,          \* CURRENT_TIMESTAMP of the store
    response,     \* what the last mutation answered, if any
    \* ---- handleGenerateMap
    pc,           \* "idle", or the mutation the flow is awaiting
    hazards,      \* identifiedRisks
    newMapId,     \* newMapId (0 before the map is created)
    i,            \* the loop index i
    newRisks,     \* newRisks
    calls,        \* the mutations the flow has sent, in order
    answered,     \* how many of them have been answered
    failed,       \* the mutation whose rejection the flow caught, if any
    before,       \* the tables when the flow was started
    toasts,       \* the errors shown to the user: [step, message]
    isLoading,    \* isLoading
    floorPlanSvg  \* floorPlanSvg, the diagram on display ("" for null)

storeVars == <<maps, risks, nextMapId, nextRiskId, deleting, lastGet>>
debounceVars == <<timers, timeoutRef, nextTimerId, sinceCall, burstCalls, lastArgs, invoked, mounted>>
editorVars == <<localRisks, mapId, pendingSaves, inFlight, saveErrors>>
layoutVars == <<total, canvas, placed, first, cur>>
columnVars == <<mapCols, riskCols, now, response>>
generateVars == <<pc, hazards, newMapId, i, newRisks, calls, answered, failed, before, toasts,
                  isLoading, floorPlanSvg>>
vars == <<storeVars, debounceVars, editorVars, layoutVars, columnVars, generateVars>>

(***************************************************************************)
(* Bounds of the model.                                                    *)
(***************************************************************************)
MaxMaps == 2      \* map rows ever inserted
MaxRisks == 2     \* risk rows ever inserted
MaxCalls == 4     \* calls of a debounced function (timers ever set)
Delay == 2        \* the debounce delay, in ticks of the model's clock
MaxTotal == 21    \* hazards the Generation Service returns
MaxNow == 1       \* ticks of the store's clock
MaxHazards == 2   \* hazards of a generation flow

Users == {1, 2}
MapIds == 1..MaxMaps
RiskIds == 1..MaxRisks
\* The two positions of the tests (riskMaps.test.ts: 100,100 then 200,200).
Positions == {<<100, 100>>, <<200, 200>>}

Max(a, b) == IF a >= b THEN a ELSE b
Min(a, b) == IF a <= b THEN a ELSE b

(***************************************************************************)
(* server/db.ts (the persistence functions; the file is appended to        *)
(* src/server/riskMaps.test.ts).  Each operator gives the table after the  *)
(* statement.  The columns no checked property reads (title, description,  *)
(* floorPlanSvg, width, height, type, severity, label, radius, color,      *)
(* timestamps) are left out of the rows.                                   *)
(***************************************************************************)
MapRow(id) == CHOOSE m \in maps : m.id = id
MapExists(id) == \E m \in maps : m.id = id

\* db.insert(riskMaps).values(data): the row gets the next AUTO_INCREMENT id.
createRiskMap(userId) == maps \cup {[id |-> nextMapId, userId |-> userId]}

\* db.insert(risks).values(data): map_id is a plain int column, no foreign key.
addRisk(m, pos) == risks \cup {[id |-> nextRiskId, mapId |-> m, pos |-> pos]}

\* The UPDATE without its WHERE clause.
updateRiskPosition_all(riskId, pos) == {[r EXCEPT !.pos = pos] : r \in risks}

\* UPDATE risks SET xPosition, yPosition WHERE id = riskId
updateRiskPosition(riskId, pos) ==
    {IF r.id = riskId THEN [r EXCEPT !.pos = pos] ELSE r : r \in risks}

\* UPDATE risks SET data WHERE id = riskId; data is a Partial<InsertRisk>:
\* each field is a set holding the new value, or empty when the field is absent.
updateRisk(riskId, data) ==
    {IF r.id = riskId
        THEN [id |-> r.id,
              mapId |-> IF data.mapId = {} THEN r.mapId ELSE CHOOSE v \in data.mapId : TRUE,
              pos |-> IF data.pos = {} THEN r.pos ELSE CHOOSE v \in data.pos : TRUE]
        ELSE r : r \in risks}

\* DELETE FROM risks WHERE id = riskId
deleteRisk(riskId) == {r \in risks : r.id # riskId}

deleteRiskMapRisks_none(m) == risks

\* deleteRiskMap, first statement: DELETE FROM risks WHERE map_id = mapId
deleteRiskMapRisks(m) == {r \in risks : r.mapId # m}

\* deleteRiskMap, second statement: DELETE FROM risk_maps WHERE id = mapId
deleteRiskMapRow(m) == {x \in maps : x.id # m}

\* The null result of getRiskMapWithRisks.
NotFound == [found |-> FALSE, map |-> {}, risks |-> {}]

\* getRiskMapWithRisks without the comparison of map[0].userId with userId.
getRiskMapWithRisks_anyOwner(m, userId) ==
    IF ~MapExists(m)
        THEN NotFound
        ELSE [found |-> TRUE, map |-> {MapRow(m)}, risks |-> {r \in risks : r.mapId = m}]

\* getRiskMapWithRisks: null unless the map exists and belongs to userId.
getRiskMapWithRisks(m, userId) ==
    IF ~MapExists(m) \/ MapRow(m).userId # userId
        THEN NotFound
        ELSE [found |-> TRUE, map |-> {MapRow(m)}, risks |-> {r \in risks : r.mapId = m}]

(***************************************************************************)
(* server/routers.ts: the procedures.  u is ctx.user.id, the other         *)
(* parameters are the input.  No procedure but riskMaps.get and            *)
(* riskMaps.list passes ctx.user to the persistence function.              *)
(***************************************************************************)
\* While the response of a riskMaps.get is held in lastGet no other procedure
\* runs, so that a property of the response reads the store it was computed from.
NoGet == <<>>
otherVarsOfStore == <<debounceVars, editorVars, layoutVars, columnVars, generateVars>>

riskMaps_get(u, m) ==
    /\ lastGet = NoGet
    /\ lastGet' = <<[caller |-> u, mapId |-> m, result |-> getRiskMapWithRisks(m, u)]>>
    /\ UNCHANGED <<maps, risks, nextMapId, nextRiskId, deleting, otherVarsOfStore>>

\* The client takes the response of riskMaps.get.
riskMaps_getReturn ==
    /\ lastGet # NoGet
    /\ lastGet' = NoGet
    /\ UNCHANGED <<maps, risks, nextMapId, nextRiskId, deleting, otherVarsOfStore>>

riskMaps_create(u) ==
    /\ lastGet = NoGet
    /\ nextMapId <= MaxMaps
    /\ maps' = createRiskMap(u)
    /\ nextMapId' = nextMapId + 1
    /\ UNCHANGED <<risks, nextRiskId, deleting, lastGet, otherVarsOfStore>>

\* riskMaps.delete up to the first await of deleteRiskMap.
riskMaps_deleteRisks(u, m) ==
    /\ lastGet = NoGet
    /\ m \notin deleting
    /\ risks' = deleteRiskMapRisks(m)
    /\ deleting' = deleting \cup {m}
    /\ UNCHANGED <<maps, nextMapId, nextRiskId, lastGet, otherVarsOfStore>>

\* riskMaps.delete from that await to its end.
riskMaps_deleteMap(m) ==
    /\ lastGet = NoGet
    /\ m \in deleting
    /\ maps' = deleteRiskMapRow(m)
    /\ deleting' = deleting \ {m}
    /\ UNCHANGED <<risks, nextMapId, nextRiskId, lastGet, otherVarsOfStore>>

risks_add(u, m, pos) ==
    /\ lastGet = NoGet
    /\ nextRiskId <= MaxRisks
    /\ risks' = addRisk(m, pos)
    /\ nextRiskId' = nextRiskId + 1
    /\ UNCHANGED <<maps, nextMapId, deleting, lastGet, otherVarsOfStore>>

risks_updatePosition(u, r, pos) ==
    /\ lastGet = NoGet
    /\ risks' = updateRiskPosition(r, pos)
    /\ UNCHANGED <<maps, nextMapId, nextRiskId, deleting, lastGet, otherVarsOfStore>>

UpdateData == [mapId : {{}} \cup {{m} : m \in MapIds}, pos : {{}} \cup {{p} : p \in Positions}]

risks_update(u, r, data) ==
    /\ lastGet = NoGet
    /\ risks' = updateRisk(r, data)
    /\ UNCHANGED <<maps, nextMapId, nextRiskId, deleting, lastGet, otherVarsOfStore>>

risks_delete(u, r) ==
    /\ lastGet = NoGet
    /\ risks' = deleteRisk(r)
    /\ UNCHANGED <<maps, nextMapId, nextRiskId, deleting, lastGet, otherVarsOfStore>>

\* Values of the variables of the parts a specification leaves alone.
DebounceIdle ==
    /\ timers = {} /\ timeoutRef = 0 /\ nextTimerId = 1
    /\ sinceCall = 0 /\ burstCalls = 0 /\ lastArgs = <<>> /\ invoked = <<>>
    /\ mounted = TRUE
EditorIdle ==
    /\ localRisks = <<>> /\ mapId = 0 /\ pendingSaves = {}
    /\ inFlight = {} /\ saveErrors = 0
LayoutIdle ==
    /\ total = 1 /\ canvas = <<1000, 800>> /\ placed = 0 /\ first = {} /\ cur = {}
StoreEmpty ==
    /\ maps = {} /\ risks = {} /\ nextMapId = 1 /\ nextRiskId = 1
    /\ deleting = {} /\ lastGet = NoGet
ColumnsIdle ==
    /\ mapCols = <<>> /\ riskCols = <<>> /\ now = 0 /\ response = <<>>
GenerateIdle ==
    /\ pc = "idle" /\ hazards = <<>> /\ newMapId = 0 /\ i = 0 /\ newRisks = <<>>
    /\ calls = <<>> /\ answered = 0 /\ failed = "" /\ before = <<{}, {}>> /\ toasts = {}
    /\ isLoading = FALSE /\ floorPlanSvg = ""

Init == StoreEmpty /\ DebounceIdle /\ EditorIdle /\ LayoutIdle /\ ColumnsIdle /\ GenerateIdle

Next ==
    \/ \E u \in Users, m \in MapIds : riskMaps_get(u, m)
    \/ riskMaps_getReturn
    \/ \E u \in Users : riskMaps_create(u)
    \/ \E u \in Users, m \in MapIds : riskMaps_deleteRisks(u, m)
    \/ \E m \in MapIds : riskMaps_deleteMap(m)
    \/ \E u \in Users, m \in MapIds, pos \in Positions : risks_add(u, m, pos)
    \/ \E u \in Users, r \in RiskIds, pos \in Positions : risks_updatePosition(u, r, pos)
    \/ \E u \in Users, r \in RiskIds, data \in UpdateData : risks_update(u, r, data)
    \/ \E u \in Users, r \in RiskIds : risks_delete(u, r)

Spec == Init /\ [][Next]_vars

(***************************************************************************)
(* deleteRiskMap (server/db.ts) with the process failing in it.  The two   *)
(* DELETE statements are awaited one after the other, outside any          *)
(* transaction.  A process that stops while the first is executed leaves   *)
(* the rows of the map that the store had removed by then removed (all or  *)
(* none of them on a store that executes a statement atomically); one that *)
(* stops after it never sends the second; one that stops while the second  *)
(* is executed leaves the map row removed or not, which are the states of  *)
(* riskMaps_deleteMap and of crashAfterDeleteRisks.  No client writes      *)
(* while a riskMaps.delete is running.                                     *)
(***************************************************************************)
crashInDeleteRisks(m) ==
    /\ lastGet = NoGet
    /\ deleting = {}
    /\ \E removed \in SUBSET {r \in risks : r.mapId = m} : risks' = risks \ removed
    /\ UNCHANGED <<maps, nextMapId, nextRiskId, deleting, lastGet, otherVarsOfStore>>

crashAfterDeleteRisks(m) ==
    /\ lastGet = NoGet
    /\ m \in deleting
    /\ deleting' = deleting \ {m}
    /\ UNCHANGED <<maps, risks, nextMapId, nextRiskId, lastGet, otherVarsOfStore>>

NextDelete ==
    \/ \E u \in Users : deleting = {} /\ riskMaps_create(u)
    \/ \E u \in Users, m \in MapIds, pos \in Positions : deleting = {} /\ risks_add(u, m, pos)
    \/ \E u \in Users, m \in MapIds : deleting = {} /\ riskMaps_deleteRisks(u, m)
    \/ \E m \in MapIds : riskMaps_deleteMap(m)
    \/ \E m \in MapIds : crashInDeleteRisks(m)
    \/ \E m \in MapIds : crashAfterDeleteRisks(m)

SpecDelete == Init /\ [][NextDelete]_vars

(***************************************************************************)
(* client/src/hooks/useDebounce.ts.  A timer is a record [id, cb, args,    *)
(* remaining]: cb stands for the callback closure the timer was set with,  *)
(* remaining counts the clock ticks until it is due.  A due timer runs     *)
(* before the clock advances and before any further event is handled.      *)
(***************************************************************************)
TimerDue == \E t \in timers : t.remaining = 0

clearTimeout(id) == {t \in timers : t.id # id}

\* The debounced function without the clearTimeout of the previous timer.
clearPrevious_never == timers

\* if (timeoutRef.current) clearTimeout(timeoutRef.current)
clearPrevious == IF timeoutRef # 0 THEN clearTimeout(timeoutRef) ELSE timers

\* The hook without the cleanup of its effect.
cleanup_none == timers

\* The cleanup of the effect: if (timeoutRef.current !== null) clearTimeout(...)
cleanup == IF timeoutRef # 0 THEN clearTimeout(timeoutRef) ELSE timers

\* setTimeout(() => callback(...args), delay)
setTimeout(cb, args) == [id |-> nextTimerId, cb |-> cb, args |-> args, remaining |-> Delay]

\* The function useDebounce returns, called with args.
debounced(cb, args) ==
    /\ timers' = clearPrevious \cup {setTimeout(cb, args)}
    /\ timeoutRef' = nextTimerId
    /\ nextTimerId' = nextTimerId + 1

\* One tick of the clock: no timer is due, every pending timer gets closer.
advanceClock ==
    /\ ~TimerDue
    /\ timers' = {[t EXCEPT !.remaining = t.remaining - 1] : t \in timers}
    /\ sinceCall' = Min(sinceCall + 1, Delay)

\* Bookkeeping of a call for the properties: the burst it belongs to.
noteCall(args) ==
    /\ burstCalls' = IF burstCalls > 0 /\ sinceCall < Delay THEN burstCalls + 1 ELSE 1
    /\ lastArgs' = <<args>>
    /\ sinceCall' = 0
    /\ invoked' = <<>>

(***************************************************************************)
(* The hook on its own: a component calls the debounced function with      *)
(* arguments drawn from SaveArgs, the clock ticks, due timers run the      *)
(* callback, which records its arguments.                                  *)
(***************************************************************************)
SaveArgs == RiskIds \X Positions
otherVarsOfDebounce == <<storeVars, editorVars, layoutVars, columnVars, generateVars>>

DebounceCall(args) ==
    /\ mounted
    /\ ~TimerDue
    /\ nextTimerId <= MaxCalls
    /\ debounced("fn", args)
    /\ noteCall(args)
    /\ UNCHANGED <<mounted, otherVarsOfDebounce>>

DebounceTick ==
    /\ advanceClock
    /\ UNCHANGED <<timeoutRef, nextTimerId, burstCalls, lastArgs, invoked, mounted,
                   otherVarsOfDebounce>>

DebounceFire(t) ==
    /\ t.remaining = 0
    /\ timers' = timers \ {t}
    /\ invoked' = Append(invoked, t.args)
    /\ UNCHANGED <<timeoutRef, nextTimerId, sinceCall, burstCalls, lastArgs, mounted,
                   otherVarsOfDebounce>>

\* The component is unmounted: React runs the cleanup of the effect.  Its event
\* handlers are gone with it, so the debounced function is not called again.
DebounceUnmount ==
    /\ mounted
    /\ mounted' = FALSE
    /\ timers' = cleanup
    /\ UNCHANGED <<timeoutRef, nextTimerId, sinceCall, burstCalls, lastArgs, invoked,
                   otherVarsOfDebounce>>

InitDebounce ==
    StoreEmpty /\ DebounceIdle /\ EditorIdle /\ LayoutIdle /\ ColumnsIdle /\ GenerateIdle

NextDebounce ==
    \/ \E args \in SaveArgs : DebounceCall(args)
    \/ DebounceTick
    \/ \E t \in timers : DebounceFire(t)
    \/ DebounceUnmount

SpecDebounce == InitDebounce /\ [][NextDebounce]_vars

(***************************************************************************)
(* client/src/pages/RiskMapEditor.tsx (src/unnamed/part_008): the editor   *)
(* opened on an existing map (/editor/:mapId), its markers dragged.  The   *)
(* page has one debounced function, debouncedSavePosition, for all its     *)
(* markers.  The callback of a timer is the saveRiskPosition of the render *)
(* that set it, which reads the mapId of that render: cb holds that mapId. *)
(***************************************************************************)
otherVarsOfEditor == <<maps, nextMapId, nextRiskId, deleting, lastGet, layoutVars, columnVars,
                      generateVars>>

\* The row of risk r in the store.
Persisted(r) == CHOOSE x \in risks : x.id = r

\* setRisks with every marker moved to the position.
setRisksPosition_all(r, pos) == [x \in DOMAIN localRisks |-> pos]

\* setRisks(prev => prev.map(r => r.id === riskId ? {...r, xPosition, yPosition} : r))
setRisksPosition(r, pos) ==
    [x \in DOMAIN localRisks |-> IF x = r THEN pos ELSE localRisks[x]]

\* handleUpdateRiskPosition(riskId, x, y)
handleUpdateRiskPosition(r, pos) ==
    /\ mounted
    /\ ~TimerDue
    /\ nextTimerId <= MaxCalls
    /\ r \in DOMAIN localRisks
    /\ localRisks' = setRisksPosition(r, pos)
    /\ pendingSaves' = pendingSaves \cup {r}
    /\ debounced(mapId, <<r, pos>>)
    /\ noteCall(<<r, pos>>)
    /\ UNCHANGED <<mounted, risks, mapId, inFlight, saveErrors, otherVarsOfEditor>>

EditorTick ==
    /\ advanceClock
    /\ UNCHANGED <<timeoutRef, nextTimerId, burstCalls, lastArgs, invoked, mounted, risks,
                   editorVars, otherVarsOfEditor>>

\* saveRiskPosition up to its await: nothing when mapId is null, else the
\* updatePosition mutation is sent.
saveRiskPosition(capturedMapId, args) ==
    IF capturedMapId = 0
        THEN inFlight
        ELSE inFlight \cup {[riskId |-> args[1], pos |-> args[2]]}

\* The timer of debouncedSavePosition runs its callback.
EditorTimerFire(t) ==
    /\ t.remaining = 0
    /\ timers' = timers \ {t}
    /\ invoked' = Append(invoked, t.args)
    /\ inFlight' = saveRiskPosition(t.cb, t.args)
    /\ UNCHANGED <<timeoutRef, nextTimerId, sinceCall, burstCalls, lastArgs, mounted, risks,
                   localRisks, mapId, pendingSaves, saveErrors, otherVarsOfEditor>>

\* The server runs risks.updatePosition and the mutation resolves:
\* saveRiskPosition goes on after its await.
updatePositionResolves(req) ==
    /\ req \in inFlight
    /\ risks' = updateRiskPosition(req.riskId, req.pos)
    /\ inFlight' = inFlight \ {req}
    /\ pendingSaves' = pendingSaves \ {req.riskId}
    /\ UNCHANGED <<debounceVars, localRisks, mapId, saveErrors, otherVarsOfEditor>>

\* The mutation is rejected (the request does not reach the store): the catch
\* branch of saveRiskPosition.
updatePositionRejects(req) ==
    /\ req \in inFlight
    /\ saveErrors = 0
    /\ inFlight' = inFlight \ {req}
    /\ saveErrors' = 1
    /\ UNCHANGED <<debounceVars, risks, localRisks, mapId, pendingSaves, otherVarsOfEditor>>

\* handleDeleteRisk: risks.delete, and on its answer
\* setRisks(prev => prev.filter(r => r.id !== riskId)).  It leaves the timer
\* of debouncedSavePosition and pendingSavesRef as they are.
handleDeleteRisk(riskId) ==
    /\ riskId \in DOMAIN localRisks
    /\ risks' = deleteRisk(riskId)
    /\ riskCols' = [x \in DOMAIN riskCols \ {riskId} |-> riskCols[x]]
    /\ localRisks' = [x \in DOMAIN localRisks \ {riskId} |-> localRisks[x]]
    /\ UNCHANGED <<maps, nextMapId, nextRiskId, deleting, lastGet, mapCols, now, response,
                   mapId, pendingSaves, inFlight, saveErrors, debounceVars, layoutVars,
                   generateVars>>

\* The editor of user 1 on map 1 with its markers loaded (the effect on
\* existingMap): what is shown is what is stored.
InitEditor ==
    /\ maps = {[id |-> 1, userId |-> 1]}
    /\ risks = {[id |-> r, mapId |-> 1, pos |-> <<100, 100>>] : r \in RiskIds}
    /\ nextMapId = 2 /\ nextRiskId = MaxRisks + 1
    /\ deleting = {} /\ lastGet = NoGet
    /\ localRisks = [r \in RiskIds |-> <<100, 100>>]
    /\ mapId = 1 /\ pendingSaves = {} /\ inFlight = {} /\ saveErrors = 0
    /\ DebounceIdle /\ LayoutIdle /\ ColumnsIdle /\ GenerateIdle

NextEditor ==
    \/ \E r \in RiskIds, pos \in Positions : handleUpdateRiskPosition(r, pos)
    \/ EditorTick
    \/ \E t \in timers : EditorTimerFire(t)
    \/ \E req \in inFlight : updatePositionResolves(req)
    \/ \E req \in inFlight : updatePositionRejects(req)
    \/ ~TimerDue /\ handleDeleteRisk(1)    \* the marker deleted is the first

SpecEditor == InitEditor /\ [][NextEditor]_vars

(***************************************************************************)
(* generateDistributedPosition (RiskMapEditor.tsx, src/unnamed/part_008;   *)
(* the same function in src/unnamed/part_009).  The code computes in       *)
(* floating point; here x is kept as the integer 2*cols*x and y as         *)
(* 2*rows*y, which is exact: cellWidth = availableWidth / cols and the     *)
(* centre adds cellWidth / 2.  jx and jy stand for (Math.random()-0.5)*40, *)
(* a value of [-20, 20).  mapDimensions is the state of the render the     *)
(* flow was started in: 1000 x 800 at first, the loaded map's size in an   *)
(* editor opened on an existing map.                                       *)
(***************************************************************************)
padding == 100
margin == 50

\* Math.ceil(Math.sqrt(total)), tabulated
CeilSqrt == [t \in 1..(MaxTotal + 1) |-> CHOOSE c \in 1..t : c * c >= t /\ (c - 1) * (c - 1) < t]
Cols(t) == CeilSqrt[t]
\* The rows taken with Math.floor in place of Math.ceil.
Rows_floor(t) == Max(1, t \div Cols(t))
\* Math.ceil(total / cols)
Rows(t) == (t + Cols(t) - 1) \div Cols(t)

availableWidth == canvas[1] - padding * 2
availableHeight == canvas[2] - padding * 2

gridCol(index, t) == index % Cols(t)
\* The row taken with % in place of Math.floor(index / cols).
gridRow_mod(index, t) == index % Rows(t)
gridRow(index, t) == index \div Cols(t)

\* padding + col * cellWidth + cellWidth / 2, times 2*cols (x) or 2*rows (y)
cellCentre(index, t) ==
    <<2 * Cols(t) * padding + (2 * gridCol(index, t) + 1) * availableWidth,
      2 * Rows(t) * padding + (2 * gridRow(index, t) + 1) * availableHeight>>

\* generateDistributedPosition without the clamp.
clamp_off(v, limit, den) == v

\* Math.max(50, Math.min(limit - 50, v)), all times den
clamp(v, limit, den) == Max(margin * den, Min((limit - margin) * den, v))

generateDistributedPosition(index, t, jx, jy) ==
    LET c == cellCentre(index, t)
        xDen == 2 * Cols(t)
        yDen == 2 * Rows(t)
    IN <<clamp(c[1] + xDen * jx, canvas[1], xDen),
         clamp(c[2] + yDen * jy, canvas[2], yDen)>>

Severities == {"low", "medium", "high", "critical"}

getSeverityRadius(severity) ==
    CASE severity = "low" -> 20
      [] severity = "medium" -> 30
      [] severity = "high" -> 40
      [] severity = "critical" -> 50
      [] OTHER -> 30

\* The values the jitter takes in the model: the least one and one near the top.
Jitters == {-20, 19}
\* 1000 x 800 is the size generateFloorPlan always returns and the initial
\* state; the others are maps created through riskMaps.create with their own
\* width and height and then opened in the editor (200 x 200 is the least
\* canvas with a padded area).
Canvases == {<<1000, 800>>, <<200, 200>>, <<200, 120>>, <<60, 60>>}

otherVarsOfLayout == <<storeVars, debounceVars, editorVars, columnVars, generateVars>>

\* The marker of hazard index of the loop of handleGenerateMap.
Marker(index, jx, jy, severity) ==
    [index |-> index,
     cell |-> <<gridCol(index, total), gridRow(index, total)>>,
     centre |-> cellCentre(index, total),
     pos |-> generateDistributedPosition(index, total, jx, jy),
     radius |-> getSeverityRadius(severity)]

\* One turn of the loop of handleGenerateMap: hazard i = placed is placed and
\* pushed on newRisks, of which the model keeps the first and the last element.
PlaceHazard(jx, jy, severity) ==
    /\ placed < total
    /\ first' = IF placed = 0 THEN {Marker(placed, jx, jy, severity)} ELSE first
    /\ cur' = IF placed = 0 THEN {} ELSE {Marker(placed, jx, jy, severity)}
    /\ placed' = placed + 1
    /\ UNCHANGED <<total, canvas, otherVarsOfLayout>>

InitLayout ==
    /\ total \in 1..MaxTotal
    /\ canvas \in Canvases
    /\ placed = 0 /\ first = {} /\ cur = {}
    /\ StoreEmpty /\ DebounceIdle /\ EditorIdle /\ ColumnsIdle /\ GenerateIdle

NextLayout ==
    \E jx \in Jitters, jy \in Jitters, severity \in Severities :
        PlaceHazard(jx, jy, severity)

SpecLayout == InitLayout /\ [][NextLayout]_vars

(***************************************************************************)
(* server/routers.ts over server/db.ts once more, with the columns of the  *)
(* rows that the properties of riskMaps.create, risks.add and              *)
(* risks.updatePosition read: a row of risk_maps is its row of maps with   *)
(* mapCols[id], a row of risks its row of risks with riskCols[id].  val is *)
(* the raw input of the procedure: the empty set stands for a value that   *)
(* is not an object, a singleton for an object with the fields given.      *)
(* updated_at is set by the store (schema: defaultNow(), onUpdateNow()).   *)
(***************************************************************************)
Titles == {"", "Test Map"}
Svgs == {"", "<svg></svg>"}
\* width: the empty set when the field is absent (height is handled alike)
CreateInputs ==
    {{}} \cup {{x} : x \in [title : Titles, floorPlanSvg : Svgs, width : {{}}]}
\* The caller of the tests (createAuthContext) and the map of their beforeEach.
Caller == 1
TestMap == 1
\* The input of riskMaps.create in the tests.
TestCreateInput ==
    [title |-> "Test Map", floorPlanSvg |-> "<svg></svg>", width |-> {1000}]
\* radius: the empty set when the field is absent
AddInputs ==
    {{}} \cup {{x} : x \in [mapId : {TestMap}, type : {"ergonomic"},
                              severity : {"medium", "high"}, label : {0},
                              pos : {<<100, 100>>}, radius : {{}, {25}},
                              color : {"#6BCB77"}]}

\* throw new Error("Invalid input")
InvalidInput == [ok |-> FALSE, insertId |-> 0, error |-> "Invalid input"]
Answer(id) == [ok |-> TRUE, insertId |-> id, error |-> ""]

\* throw new Error('Failed to create risk map: no insertId returned')
NoInsertId ==
    [ok |-> FALSE, insertId |-> 0,
     error |-> "Failed to create risk map: no insertId returned"]

\* What db.insert(...).values(data) resolves to for a row stored under id: the
\* array of the mysql2 driver, whose element 0 is the header with insertId; a
\* bare header; or either without an identity (insertId 0 or none).  head is
\* the empty set when the result has no element 0, insertId 0 when the
\* property is undefined.
DrizzleResults(id) ==
    {[head |-> {id}, insertId |-> 0], [head |-> {}, insertId |-> id],
     [head |-> {0}, insertId |-> 0], [head |-> {}, insertId |-> 0]}

\* (result as any)[0]?.insertId || (result as any).insertId
insertIdOf(result) ==
    LET first0 == IF result.head = {} THEN 0 ELSE CHOOSE v \in result.head : TRUE
    IN  IF first0 # 0 THEN first0 ELSE result.insertId

checkInsertId_unchecked(insertId) == Answer(insertId)

\* if (!insertId) throw ...; return { insertId }
checkInsertId(insertId) ==
    IF insertId = 0 THEN NoInsertId ELSE Answer(insertId)

\* (obj.width as number) || 1000
widthOrDefault(width) ==
    IF width = {} \/ width = {0} THEN 1000 ELSE CHOOSE v \in width : TRUE

\* (obj.radius as number) || 30
radiusOrDefault(radius) ==
    IF radius = {} \/ radius = {0} THEN 30 ELSE CHOOSE v \in radius : TRUE

\* getRadiusBySeverity of server/llm-helpers.ts
getRadiusBySeverity(severity) ==
    CASE severity = "low" -> 20
      [] severity = "medium" -> 30
      [] severity = "high" -> 40
      [] severity = "critical" -> 50
      [] OTHER -> 30

\* updated_at ... ON UPDATE CURRENT_TIMESTAMP: the store sets the column of a
\* row when an UPDATE changes the value of another column of it.
onUpdateNow(riskId, pos) ==
    [x \in DOMAIN riskCols |->
        IF x = riskId /\ (\E r \in risks : r.id = x /\ r.pos # pos)
            THEN [riskCols[x] EXCEPT !.updatedAt = now]
            ELSE riskCols[x]]

\* The other columns of the row riskMaps.create inserts.
createRiskMapColumns(input) ==
    mapCols @@ (nextMapId :> [title |-> input.title,
                              floorPlanSvg |-> input.floorPlanSvg,
                              width |-> widthOrDefault(input.width),
                              createdAt |-> now])

\* The other columns of the row risks.add inserts.
addRiskColumns(input) ==
    riskCols @@ (nextRiskId :> [type |-> input.type,
                                severity |-> input.severity,
                                label |-> input.label,
                                color |-> input.color,
                                radius |-> radiusOrDefault(input.radius),
                                updatedAt |-> now])

riskMaps_createRow(u, val) ==
    /\ IF val = {}
          THEN /\ response' = <<InvalidInput>>
               /\ UNCHANGED <<maps, nextMapId, mapCols>>
          ELSE LET input == CHOOSE x \in val : TRUE IN
               /\ nextMapId <= MaxMaps
               /\ maps' = createRiskMap(u)
               /\ mapCols' = createRiskMapColumns(input)
               /\ nextMapId' = nextMapId + 1
               /\ \E result \in DrizzleResults(nextMapId) :
                     response' = <<checkInsertId(insertIdOf(result))>>
    /\ UNCHANGED <<risks, nextRiskId, deleting, lastGet, riskCols, now,
                   debounceVars, editorVars, layoutVars, generateVars>>

risks_addRow(u, val) ==
    /\ IF val = {}
          THEN /\ response' = <<InvalidInput>>
               /\ UNCHANGED <<risks, nextRiskId, riskCols>>
          ELSE LET input == CHOOSE x \in val : TRUE IN
               /\ nextRiskId <= MaxRisks
               /\ risks' = addRisk(input.mapId, input.pos)
               /\ riskCols' = addRiskColumns(input)
               /\ nextRiskId' = nextRiskId + 1
               /\ \E result \in DrizzleResults(nextRiskId) :
                     response' = <<checkInsertId(insertIdOf(result))>>
    /\ UNCHANGED <<maps, nextMapId, deleting, lastGet, mapCols, now,
                   debounceVars, editorVars, layoutVars, generateVars>>

risks_updatePositionRow(u, r, pos) ==
    /\ risks' = updateRiskPosition(r, pos)
    /\ riskCols' = onUpdateNow(r, pos)
    /\ response' = <<Answer(0)>>
    /\ UNCHANGED <<maps, nextMapId, nextRiskId, deleting, lastGet, mapCols, now,
                   debounceVars, editorVars, layoutVars, generateVars>>

\* The orders in which a result can hold the rows with these ids, each once.
Orderings(ids) ==
    {s \in [1..Cardinality(ids) -> ids] : \A a, b \in DOMAIN s : a # b => s[a] # s[b]}

getUserRiskMaps_all(userId) ==
    {s \in Orderings({m.id : m \in maps}) :
        \A a, b \in DOMAIN s : a < b => mapCols[s[a]].createdAt <= mapCols[s[b]].createdAt}

\* db.select().from(riskMaps).where(eq(riskMaps.userId, userId))
\*   .orderBy(riskMaps.createdAt): the results the store can give, rows with
\* the same created_at coming in any order.
getUserRiskMaps(userId) ==
    {s \in Orderings({m.id : m \in {x \in maps : x.userId = userId}}) :
        \A a, b \in DOMAIN s : a < b => mapCols[s[a]].createdAt <= mapCols[s[b]].createdAt}

\* riskMaps.list: the answer is the array of getUserRiskMaps (rows named by id).
riskMaps_list(u) ==
    /\ \E list \in getUserRiskMaps(u) : response' = <<[ok |-> TRUE, list |-> list]>>
    /\ UNCHANGED <<storeVars, mapCols, riskCols, now,
                   debounceVars, editorVars, layoutVars, generateVars>>

\* Time passes at the store.
ColumnsTick ==
    /\ now < MaxNow
    /\ now' = now + 1
    /\ UNCHANGED <<storeVars, mapCols, riskCols, response,
                   debounceVars, editorVars, layoutVars, generateVars>>

\* riskMaps.create and riskMaps.list called by the users, on an empty store.
InitCreate ==
    StoreEmpty /\ DebounceIdle /\ EditorIdle /\ LayoutIdle /\ ColumnsIdle /\ GenerateIdle

NextCreate ==
    \/ \E u \in Users, val \in CreateInputs : riskMaps_createRow(u, val)
    \/ \E u \in Users : riskMaps_list(u)
    \/ ColumnsTick

SpecCreate == InitCreate /\ [][NextCreate]_vars

\* risks.add and risks.updatePosition called on the map of the tests.
InitRisks ==
    /\ maps = {[id |-> TestMap, userId |-> Caller]}
    /\ mapCols = (TestMap :> [title |-> "Test Map", floorPlanSvg |-> "<svg></svg>",
                              width |-> 1000, createdAt |-> 0])
    /\ risks = {} /\ nextMapId = TestMap + 1 /\ nextRiskId = 1
    /\ deleting = {} /\ lastGet = NoGet
    /\ riskCols = <<>> /\ now = 0 /\ response = <<>>
    /\ DebounceIdle /\ EditorIdle /\ LayoutIdle /\ GenerateIdle

NextRisks ==
    \/ \E val \in AddInputs : risks_addRow(Caller, val)
    \/ \E r \in RiskIds, pos \in Positions : risks_updatePositionRow(Caller, r, pos)
    \/ ColumnsTick

SpecRisks == InitRisks /\ [][NextRisks]_vars

\* The two procedures that insert a row, called as the tests call them.
NextInsert ==
    \/ riskMaps_createRow(Caller, {TestCreateInput})
    \/ \E val \in AddInputs : risks_addRow(Caller, val)
    \/ ColumnsTick

SpecInsert == InitRisks /\ [][NextInsert]_vars

(***************************************************************************)
(* handleGenerateMap (RiskMapEditor.tsx, src/unnamed/part_008): one async  *)
(* function, awaiting in turn generateFloorPlanMutation,                   *)
(* identifyRisksMutation, createMapMutation and, in a loop,                *)
(* addRiskMutation, all inside one try block.  pc names the mutation being *)
(* awaited.  A mutation either resolves, the server having run the         *)
(* procedure, or rejects, the server having written nothing.  The button   *)
(* is disabled while isLoading, so a flow is started only when none runs;  *)
(* the description is not empty.  The user is Caller and no other client   *)
(* writes to the store.  The flow is followed with the least jitter, the   *)
(* positions being the subject of SpecLayout.                              *)
(***************************************************************************)
\* Diagrams generateFloorPlan may answer with.
FloorPlans == {"<svg>A</svg>", "<svg>B</svg>"}

\* What identifyRisks may answer: the hazards are told apart by their label.
SeverityOf == <<"high", "low", "critical", "medium">>
TypeOf == <<"acidental", "chemical", "ergonomic", "physical", "biological">>
Hazard(k) ==
    [label |-> k,
     type |-> TypeOf[((k - 1) % 5) + 1],
     severity |-> SeverityOf[((k - 1) % 4) + 1]]
HazardLists ==
    {[k \in 1..n |-> Hazard(k)] : n \in 0..MaxHazards}
        \cup {[k \in 1..n |-> Hazard(n + 1 - k)] : n \in 0..MaxHazards}

\* The enumerations of the json_schema sent with the prompt.
RiskTypes == {TypeOf[k] : k \in DOMAIN TypeOf}

\* A hazard whose type is none of the enumeration.
OtherHazard == [label |-> 1, type |-> "other", severity |-> "low"]

\* What invokeLLM may answer.  text: choices[0].message.content is a string;
\* json: what JSON.parse makes of that string, the empty set when it is not
\* JSON, else the value in a singleton.
LlmResponses ==
    {[text |-> TRUE, json |-> {list}] : list \in HazardLists}
        \cup {[text |-> TRUE, json |-> {<<OtherHazard>>}],
              [text |-> TRUE, json |-> {}],
              [text |-> FALSE, json |-> {}]}

\* identifyRisks of server/llm-helpers.ts after invokeLLM: ok is FALSE when
\* JSON.parse throws, risks is the parsed value as it is.
identifyRisks(llm) ==
    LET content == IF llm.text THEN llm.json ELSE {<<>>}
    IN  IF content = {}
            THEN [ok |-> FALSE, risks |-> <<>>]
            ELSE [ok |-> TRUE, risks |-> CHOOSE v \in content : TRUE]

\* The flow with the loop running over the list from its end.
hazardAt_reversed(index) == hazards[Len(hazards) - index]

\* identifiedRisks[i]
hazardAt(index) == hazards[index + 1]

\* getRiskColor of the editor
getRiskColor(type) ==
    CASE type = "acidental" -> "#FF6B6B"
      [] type = "chemical" -> "#FFD93D"
      [] type = "ergonomic" -> "#6BCB77"
      [] type = "physical" -> "#4D96FF"
      [] type = "biological" -> "#FF6B9D"
      [] OTHER -> "#999999"

\* getRiskTypeColor of server/llm-helpers.ts
getRiskTypeColor(type) ==
    CASE type = "physical" -> "#22C55E"
      [] type = "ergonomic" -> "#EAB308"
      [] type = "acidental" -> "#3B82F6"
      [] type = "biological" -> "#92400E"
      [] type = "chemical" -> "#EF4444"
      [] OTHER -> "#999999"

\* riskData of the loop, as the input of risks.add
riskData(index, jx, jy) ==
    [mapId |-> newMapId,
     type |-> hazardAt(index).type,
     severity |-> hazardAt(index).severity,
     label |-> hazardAt(index).label,
     pos |-> generateDistributedPosition(index, Len(hazards), jx, jy),
     radius |-> {getSeverityRadius(hazardAt(index).severity)},
     color |-> getRiskColor(hazardAt(index).type)]

\* The flow going on with the next mutation after a rejection.
afterThrow_continue(step) ==
    CASE step = "generateFloorPlan" -> "identifyRisks"
      [] step = "identifyRisks" -> "createMap"
      [] OTHER -> "idle"

\* The flow sending the rejected mutation again.
afterThrow_retry(step) == step

\* Where the flow is after a rejected await: the catch block, then finally.
afterThrow(step) == "idle"

\* toast.error of the catch block
errorToast(step) == "Erro ao gerar mapa de risco"

\* setRisks(newRisks)
setRisks(list) ==
    [id \in {list[k].id : k \in DOMAIN list} |->
        (CHOOSE x \in {list[k] : k \in DOMAIN list} : x.id = id).pos]

\* The flow leaving the try statement without its finally block.
finallyBlock_none(step, loading) == loading

\* finally { setIsLoading(false) }, which runs when the try statement is left.
finallyBlock(step, loading) == IF step = "idle" THEN FALSE ELSE loading

\* The mutation being awaited is answered and the flow sends the next one,
\* or leaves the try statement.
goto(step) ==
    /\ pc' = step
    /\ isLoading' = finallyBlock(step, isLoading)
    /\ answered' = answered + 1
    /\ calls' = IF step = "idle" THEN calls ELSE Append(calls, step)

\* The mutation being awaited rejects.
catch(step) ==
    /\ failed' = step
    /\ toasts' = toasts \cup {[step |-> step, message |-> errorToast(step)]}
    /\ goto(afterThrow(step))

serverVarsOfGenerate == <<deleting, lastGet, debounceVars, pendingSaves, inFlight, saveErrors,
                          total, placed, first, cur, now, response>>
otherVarsOfGenerate == <<serverVarsOfGenerate, floorPlanSvg>>

\* The click on "Gerar Mapa".
handleGenerateMap ==
    /\ pc = "idle"
    /\ nextMapId <= MaxMaps
    /\ pc' = "generateFloorPlan"
    /\ isLoading' = TRUE
    /\ calls' = <<"generateFloorPlan">>
    /\ answered' = 0
    /\ hazards' = <<>> /\ newMapId' = 0 /\ i' = 0 /\ newRisks' = <<>>
    /\ failed' = ""
    /\ before' = <<maps, risks>>
    /\ UNCHANGED <<maps, risks, nextMapId, nextRiskId, mapCols, riskCols, localRisks, mapId,
                   canvas, toasts, otherVarsOfGenerate>>

\* generateFloorPlan answers the diagram svg, always with width 1000 and
\* height 800: setFloorPlanSvg, setMapDimensions.
generateFloorPlanResolves(svg) ==
    /\ pc = "generateFloorPlan"
    /\ floorPlanSvg' = svg
    /\ canvas' = <<1000, 800>>
    /\ goto("identifyRisks")
    /\ UNCHANGED <<maps, risks, nextMapId, nextRiskId, mapCols, riskCols, localRisks, mapId,
                   hazards, newMapId, i, newRisks, failed, before, toasts,
                   serverVarsOfGenerate>>

generateFloorPlanRejects ==
    /\ pc = "generateFloorPlan"
    /\ catch("generateFloorPlan")
    /\ UNCHANGED <<maps, risks, nextMapId, nextRiskId, mapCols, riskCols, localRisks, mapId,
                   canvas, hazards, newMapId, i, newRisks, before, otherVarsOfGenerate>>

identifyRisksResolves(list) ==
    /\ pc = "identifyRisks"
    /\ hazards' = list
    /\ goto("createMap")
    /\ UNCHANGED <<maps, risks, nextMapId, nextRiskId, mapCols, riskCols, localRisks, mapId,
                   canvas, newMapId, i, newRisks, failed, before, toasts,
                   otherVarsOfGenerate>>

identifyRisksRejects ==
    /\ pc = "identifyRisks"
    /\ catch("identifyRisks")
    /\ UNCHANGED <<maps, risks, nextMapId, nextRiskId, mapCols, riskCols, localRisks, mapId,
                   canvas, hazards, newMapId, i, newRisks, before, otherVarsOfGenerate>>

\* ai.identifyRisks has called invokeLLM and got llm: the mutation resolves
\* with what identifyRisks returns, or rejects when it throws.
identifyRisksAnswers(llm) ==
    IF identifyRisks(llm).ok
        THEN identifyRisksResolves(identifyRisks(llm).risks)
        ELSE identifyRisksRejects

\* riskMaps.create has inserted the map: setMapId, then the loop, which sends
\* the first risks.add, or with no hazard setRisks([]).
createMapResolves ==
    /\ pc = "createMap"
    /\ maps' = createRiskMap(Caller)
    /\ mapCols' = createRiskMapColumns([title |-> "Mapa de Risco", floorPlanSvg |-> floorPlanSvg,
                                        width |-> {1000}])
    /\ nextMapId' = nextMapId + 1
    /\ newMapId' = nextMapId
    /\ mapId' = nextMapId
    /\ IF Len(hazards) > 0
          THEN goto("addRisk") /\ UNCHANGED localRisks
          ELSE goto("idle") /\ localRisks' = setRisks(newRisks)
    /\ UNCHANGED <<risks, nextRiskId, riskCols, canvas, hazards, i, newRisks, failed,
                   before, toasts, otherVarsOfGenerate>>

createMapRejects ==
    /\ pc = "createMap"
    /\ catch("createMap")
    /\ UNCHANGED <<maps, risks, nextMapId, nextRiskId, mapCols, riskCols, localRisks, mapId,
                   canvas, hazards, newMapId, i, newRisks, before, otherVarsOfGenerate>>

\* risks.add has inserted hazard i, placed with the jitter jx, jy: the push on
\* newRisks, then the next turn of the loop or, after the last, setRisks.
addRiskResolves(jx, jy) ==
    /\ pc = "addRisk"
    /\ risks' = addRisk(newMapId, riskData(i, jx, jy).pos)
    /\ riskCols' = addRiskColumns(riskData(i, jx, jy))
    /\ nextRiskId' = nextRiskId + 1
    /\ newRisks' = Append(newRisks, [id |-> nextRiskId, pos |-> riskData(i, jx, jy).pos])
    /\ i' = i + 1
    /\ IF i + 1 < Len(hazards)
          THEN goto("addRisk") /\ UNCHANGED localRisks
          ELSE goto("idle") /\ localRisks' = setRisks(newRisks')
    /\ UNCHANGED <<maps, nextMapId, mapCols, mapId, canvas, hazards, newMapId, failed,
                   before, toasts, otherVarsOfGenerate>>

addRiskRejects ==
    /\ pc = "addRisk"
    /\ catch("addRisk")
    /\ UNCHANGED <<maps, risks, nextMapId, nextRiskId, mapCols, riskCols, localRisks, mapId,
                   canvas, hazards, newMapId, i, newRisks, before, otherVarsOfGenerate>>

InitGenerate ==
    StoreEmpty /\ DebounceIdle /\ EditorIdle /\ LayoutIdle /\ ColumnsIdle /\ GenerateIdle

NextGenerate ==
    \/ handleGenerateMap
    \/ generateFloorPlanResolves("<svg>A</svg>")
    \/ generateFloorPlanRejects
    \/ \E llm \in LlmResponses : identifyRisksAnswers(llm)
    \/ identifyRisksRejects
    \/ createMapResolves
    \/ createMapRejects
    \/ addRiskResolves(-20, -20)
    \/ addRiskRejects

SpecGenerate == InitGenerate /\ [][NextGenerate]_vars

(***************************************************************************)
(* The editor with its other two handlers that write risks, which the user *)
(* can call while a flow runs: "Adicionar Risco" is rendered whenever      *)
(* floorPlanSvg is set and, like the delete of a marker, is not disabled   *)
(* by isLoading.  Each awaits one mutation; here the mutation is answered  *)
(* before the flow gets its next answer.  handleDeleteRisk is with the     *)
(* handlers of the markers above.                                          *)
(***************************************************************************)
\* The risk of the form, placed at pos.
manualRisk(pos) ==
    [mapId |-> mapId, type |-> "physical", severity |-> "medium", label |-> 0,
     pos |-> pos, radius |-> {30}, color |-> getRiskColor("physical")]

\* handleAddRisk: a toast when mapId is null or 0; else risks.add with the
\* mapId of the state, and on its answer setRisks(prev => [...prev, newRisk]).
handleAddRisk(pos, resolves) ==
    /\ floorPlanSvg # ""
    /\ nextRiskId <= MaxRisks
    /\ IF mapId = 0
          THEN /\ toasts' = toasts \cup {[step |-> "handleAddRisk",
                                          message |-> "Mapa nao foi criado"]}
               /\ UNCHANGED <<risks, riskCols, nextRiskId, localRisks>>
          ELSE IF resolves
          THEN /\ risks' = addRisk(mapId, pos)
               /\ riskCols' = addRiskColumns(manualRisk(pos))
               /\ nextRiskId' = nextRiskId + 1
               /\ localRisks' = localRisks @@ (nextRiskId :> pos)
               /\ UNCHANGED toasts
          ELSE /\ toasts' = toasts \cup {[step |-> "handleAddRisk",
                                          message |-> "Erro ao adicionar risco"]}
               /\ UNCHANGED <<risks, riskCols, nextRiskId, localRisks>>
    /\ UNCHANGED <<maps, nextMapId, mapCols, mapId, canvas, pc, hazards, newMapId, i,
                   newRisks, calls, answered, failed, before, isLoading,
                   otherVarsOfGenerate>>

\* In a session identifyRisks finds the first hazard, or the first two.
SessionResponses ==
    {llm \in LlmResponses :
        \E list \in llm.json : Len(list) > 0 /\ \A k \in DOMAIN list : list[k] = Hazard(k)}

NextSession ==
    \/ handleGenerateMap
    \/ \E svg \in FloorPlans : generateFloorPlanResolves(svg)
    \/ generateFloorPlanRejects
    \/ \E llm \in SessionResponses : identifyRisksAnswers(llm)
    \/ identifyRisksRejects
    \/ createMapResolves
    \/ createMapRejects
    \/ addRiskResolves(-20, -20)
    \/ addRiskRejects
    \/ \E resolves \in BOOLEAN : handleAddRisk(<<100, 100>>, resolves)
    \/ \E riskId \in DOMAIN localRisks : handleDeleteRisk(riskId)

SpecSession == InitGenerate /\ [][NextSession]_vars

(***************************************************************************)
(* The flow with every awaited mutation settling in the end: the call      *)
(* being awaited resolves or rejects (the flow has no timeout of its own). *)
(* One diagram and the least jitter are enough here.  handleExportPDF,     *)
(* which also sets isLoading, is not in the model: its button and "Gerar   *)
(* Mapa" are both disabled while isLoading.                                *)
(***************************************************************************)
awaitedCallSettles ==
    \/ generateFloorPlanResolves("<svg>A</svg>")
    \/ generateFloorPlanRejects
    \/ \E llm \in LlmResponses : identifyRisksAnswers(llm)
    \/ identifyRisksRejects
    \/ createMapResolves
    \/ createMapRejects
    \/ addRiskResolves(-20, -20)
    \/ addRiskRejects

NextFlow == handleGenerateMap \/ awaitedCallSettles

SpecFlow == InitGenerate /\ [][NextFlow]_vars /\ WF_vars(awaitedCallSettles)

(***************************************************************************)
(* Properties.                                                             *)
(***************************************************************************)
Owns(u, m) == MapExists(m) /\ MapRow(m).userId = u
\* Map m, the map of risk r, exists and belongs to a user other than u.
Foreign(u, m) == MapExists(m) /\ MapRow(m).userId # u
ForeignRisk(u, r) == \E x \in risks : x.id = r /\ Foreign(u, x.mapId)
Quiet == timers = {} /\ inFlight = {}

\* C1 (as claimed; SpecEditor): once every timer has run (the delay has passed
\* since the last drag) and every save has been answered without an error, the
\* stored position of every marker is the position the editor shows, also when
\* another marker was dragged less than the delay after it.
C1_DraggedPositionsPersisted ==
    (Quiet /\ saveErrors = 0) =>
        \A r \in DOMAIN localRisks : Persisted(r).pos = localRisks[r]

\* C2 (SpecDebounce): after K >= 1 calls, each less than Delay after the one
\* before, the callback is not invoked while less than Delay has passed since
\* the last call, and once Delay has passed (the component still mounted) it
\* has been invoked exactly once, with the arguments of the last call.
C2_OneInvocationWithLastArgs ==
    burstCalls > 0 =>
        /\ sinceCall < Delay => invoked = <<>>
        /\ (mounted /\ sinceCall = Delay /\ ~TimerDue) => invoked = lastArgs
        /\ Len(invoked) <= 1

\* C2, its case: a burst of two or more calls has led to an invocation.
C2_Witness == burstCalls >= 2 /\ invoked # <<>> /\ invoked = lastArgs

\* C3 (as claimed; Spec): every stored risk refers to a stored map.
C3_NoOrphanRisks == \A r \in risks : MapExists(r.mapId)

\* C4 (as claimed; Spec): when riskMaps.delete of a stored map m completes,
\* riskMaps.get of m answers not-found to every user and no stored risk has
\* mapId m.
C4_DeleteMapLeavesNothing ==
    [][\A m \in MapIds :
          (MapExists(m) /\ riskMaps_deleteMap(m)) =>
              /\ \A u \in Users : getRiskMapWithRisks(m, u)' = NotFound
              /\ \A r \in risks' : r.mapId # m]_vars

\* C5 (as claimed; Spec): riskMaps.delete, risks.add, risks.updatePosition,
\* risks.update and risks.delete called by a user on a map (on a risk of a map)
\* that belongs to another user leave both tables as they were.
C5_OnlyOwnerMutates ==
    [][\A u \in Users :
          /\ \A m \in MapIds :
                (Foreign(u, m) /\ riskMaps_deleteRisks(u, m)) => UNCHANGED <<maps, risks>>
          /\ \A m \in MapIds, pos \in Positions :
                (Foreign(u, m) /\ risks_add(u, m, pos)) => UNCHANGED <<maps, risks>>
          /\ \A r \in RiskIds, pos \in Positions :
                (ForeignRisk(u, r) /\ risks_updatePosition(u, r, pos)) => UNCHANGED <<maps, risks>>
          /\ \A r \in RiskIds, data \in UpdateData :
                (ForeignRisk(u, r) /\ risks_update(u, r, data)) => UNCHANGED <<maps, risks>>
          /\ \A r \in RiskIds :
                (ForeignRisk(u, r) /\ risks_delete(u, r)) => UNCHANGED <<maps, risks>>]_vars

Markers == first \cup cur
InMargins(pos) ==
    /\ margin * 2 * Cols(total) <= pos[1]
    /\ pos[1] <= (canvas[1] - margin) * 2 * Cols(total)
    /\ margin * 2 * Rows(total) <= pos[2]
    /\ pos[2] <= (canvas[2] - margin) * 2 * Rows(total)

\* C7 (as claimed; SpecLayout): on every canvas every position returned lies
\* within [50, W-50] x [50, H-50].
C7_WithinMarginsOnEveryCanvas == \A m \in Markers : InMargins(m.pos)

\* C7 (amended; SpecLayout): on every canvas of width and height at least 100,
\* for every total, index and jitter, the position returned lies within
\* [50, W-50] x [50, H-50].
C7_WithinMargins ==
    (canvas[1] >= 2 * margin /\ canvas[2] >= 2 * margin) =>
        \A m \in Markers : InMargins(m.pos)

\* C7, its case: on a canvas of at least 100 x 100 the clamp has cut a value.
C7_Witness ==
    /\ canvas[1] >= 2 * margin /\ canvas[2] >= 2 * margin
    /\ \E m \in cur :
          /\ m.pos[2] = margin * 2 * Rows(total)
          /\ m.centre[2] - 40 * Rows(total) < m.pos[2]

\* C8 (as claimed; SpecLayout): no two markers of a flow have the same
\* pre-jitter cell centre.
C8_DistinctCentres == \A f \in first, c \in cur : f.centre # c.centre

\* C8 (amended; SpecLayout): the grid cells of the indices placed are pairwise
\* distinct, and so are their centres when the cells have a width and a height
\* (canvas width and height other than 2 * padding).
C8_DistinctCells ==
    \A k \in 0..(placed - 2) :
        /\ <<gridCol(k, total), gridRow(k, total)>>
               # <<gridCol(placed - 1, total), gridRow(placed - 1, total)>>
        /\ (availableWidth # 0 /\ availableHeight # 0) =>
               cellCentre(k, total) # cellCentre(placed - 1, total)

\* C8, its case: a grid of several rows and columns has been filled.
C8_Witness == total >= 5 /\ placed = total /\ cur # {} /\ availableWidth # 0

\* The markers f and c do not overlap: the distance of their centres is at
\* least the sum of their radii.  Positions are brought to the common
\* denominator L = 2 * cols * rows; the squares are taken only when both
\* differences are below the sum of the radii.
Abs(v) == IF v < 0 THEN -v ELSE v
Apart(f, c) ==
    LET L == 2 * Cols(total) * Rows(total)
        dx == Abs(f.pos[1] - c.pos[1]) * Rows(total)
        dy == Abs(f.pos[2] - c.pos[2]) * Cols(total)
        R == (f.radius + c.radius) * L
    IN dx >= R \/ dy >= R \/ dx * dx + dy * dy >= R * R

\* C9 (as claimed; SpecLayout): on the 1000 x 800 canvas no two markers of a
\* flow overlap.
C9_NoOverlap ==
    canvas = <<1000, 800>> => \A f \in first, c \in cur : Apart(f, c)

\* C10 (as claimed; Spec): risks.add with a mapId no stored map has inserts no row.
C10_AddToMissingMapInsertsNothing ==
    [][\A u \in Users, m \in MapIds, pos \in Positions :
          (~MapExists(m) /\ risks_add(u, m, pos)) => risks' = risks]_vars

\* C19 (SpecDebounce): once the component that owns the debounced function is
\* unmounted no invocation is pending and the callback is not invoked again.
C19_TeardownCancelsPending ==
    [][(~mounted') => (timers' = {} /\ invoked' = invoked)]_vars

\* C19, its case: the component was unmounted while an invocation was pending,
\* and the delay has passed since without an invocation.
C19_Witness ==
    ~mounted /\ burstCalls > 0 /\ sinceCall = Delay /\ invoked = <<>>

\* C20 (SpecEditor): a drag of marker r sets the position shown for r at once
\* and leaves the position shown for every other marker as it was; the drag
\* itself writes nothing to the store and sends no mutation, it only sets the
\* timer of the save.
C20_LocalUpdateAtOnce ==
    [][\A r \in RiskIds, pos \in Positions :
          handleUpdateRiskPosition(r, pos) =>
              /\ localRisks'[r] = pos
              /\ \A x \in DOMAIN localRisks : x # r => localRisks'[x] = localRisks[x]
              /\ DOMAIN localRisks' = DOMAIN localRisks
              /\ risks' = risks /\ inFlight' = inFlight
              /\ \E t \in timers' : t.args = <<r, pos>> /\ t.remaining = Delay]_vars

\* C20, its case: marker 1 shows a position that is not stored yet, while
\* marker 2 shows another.
C20_Witness ==
    /\ 1 \in DOMAIN localRisks /\ 2 \in DOMAIN localRisks
    /\ localRisks[1] # Persisted(1).pos
    /\ localRisks[2] # localRisks[1]
    /\ inFlight = {}

\* C11 (as claimed; SpecCreate): riskMaps.create with an empty title or an
\* empty diagram answers the invalid-input error and inserts no map.
C11_EmptyTitleOrDiagramRejected ==
    [][\A u \in Users, val \in CreateInputs :
          ((\E x \in val : x.title = "" \/ x.floorPlanSvg = "") /\ riskMaps_createRow(u, val)) =>
              (maps' = maps /\ response' = <<InvalidInput>>)]_vars

\* C12 (as claimed; SpecRisks): after risks.add without a radius on a map of
\* the caller, riskMaps.get of that map returns the new risk, and its radius
\* is the one getRadiusBySeverity gives for its severity.
C12_RadiusDefaultsBySeverity ==
    [][\A u \in Users, val \in AddInputs :
          ((\E x \in val : x.radius = {} /\ Owns(u, x.mapId)) /\ risks_addRow(u, val)) =>
              \A x \in val :
                  \E r \in getRiskMapWithRisks(x.mapId, u).risks' :
                      /\ r.id = nextRiskId
                      /\ riskCols'[r.id].radius = getRadiusBySeverity(x.severity)]_vars

\* The rows of risks other than riskId, with their columns, and every row of
\* risk_maps are left as they were.
OthersUntouched(riskId) ==
    /\ \A r \in risks : r.id # riskId => r \in risks'
    /\ \A r \in risks' : r.id # riskId => r \in risks
    /\ \A x \in DOMAIN riskCols : x # riskId => riskCols'[x] = riskCols[x]
    /\ DOMAIN riskCols' = DOMAIN riskCols
    /\ maps' = maps /\ mapCols' = mapCols

\* C13 (as claimed; SpecRisks): risks.updatePosition(riskId, x, y) leaves the
\* risk with the new coordinates and every other column of it as it was, and
\* every other risk and every map as they were.
C13_OnlyPositionChanges ==
    [][\A u \in Users, r \in RiskIds, pos \in Positions :
          ((\E x \in risks : x.id = r) /\ risks_updatePositionRow(u, r, pos)) =>
              /\ \E x \in risks' : x.id = r /\ x.pos = pos /\ x.mapId = Persisted(r).mapId
              /\ riskCols'[r] = riskCols[r]
              /\ OthersUntouched(r)]_vars

\* C13 (amended; SpecRisks): risks.updatePosition(riskId, x, y) leaves the
\* risk with the new coordinates and every other column of it but updated_at
\* as it was, and every other risk and every map as they were.
C13_OnlyPositionAndUpdatedAtChange ==
    [][\A u \in Users, r \in RiskIds, pos \in Positions :
          ((\E x \in risks : x.id = r) /\ risks_updatePositionRow(u, r, pos)) =>
              /\ \E x \in risks' : x.id = r /\ x.pos = pos /\ x.mapId = Persisted(r).mapId
              /\ riskCols'[r] = [riskCols[r] EXCEPT !.updatedAt = riskCols'[r].updatedAt]
              /\ OthersUntouched(r)]_vars

\* C13, its case: a risk has been moved after the time of its insertion while
\* another risk, inserted at that time, is stored.
C13_Witness ==
    \E r \in risks, o \in risks :
        /\ r.id # o.id
        /\ r.pos = <<200, 200>> /\ o.pos = <<100, 100>>
        /\ riskCols[r.id].updatedAt > riskCols[o.id].updatedAt
        /\ response = <<Answer(0)>>

\* The mutation the flow sends k-th.
ExpectedCall(k) ==
    CASE k = 1 -> "generateFloorPlan"
      [] k = 2 -> "identifyRisks"
      [] k = 3 -> "createMap"
      [] OTHER -> "addRisk"
\* The risks stored for the map of the flow, and the rank of one by its id.
FlowRows == {r \in risks : r.mapId = newMapId}
RankOf(r) == Cardinality({x \in FlowRows : x.id <= r.id})
\* Row r is hazard k of the list (from 1), placed with the grid index k - 1.
PlacedAs(r, k) ==
    /\ riskCols[r.id].label = hazards[k].label
    /\ riskCols[r.id].severity = hazards[k].severity
    /\ \E j \in Jitters : r.pos = generateDistributedPosition(k - 1, Len(hazards), j, j)
InsertedInOrder ==
    /\ Cardinality(FlowRows) = i
    /\ \A r \in FlowRows : RankOf(r) <= Len(hazards) /\ PlacedAs(r, RankOf(r))

\* C14 (SpecGenerate): the flow sends generateFloorPlan, identifyRisks,
\* createMap and then one addRisk per hazard, each only when the one before
\* has been answered; the k-th risk stored for the new map, by id, is hazard k
\* of the list identifyRisks answered, placed with the grid index k - 1.
C14_OneAfterAnotherInOrder ==
    /\ \A k \in DOMAIN calls : calls[k] = ExpectedCall(k)
    /\ Len(calls) <= 3 + Len(hazards)
    /\ answered = IF pc = "idle" THEN Len(calls) ELSE Len(calls) - 1
    /\ newMapId # 0 => InsertedInOrder

\* C14, its case: a flow has ended with every hazard of a list of two or more,
\* not in the order of their labels, inserted.
C14_Witness ==
    /\ pc = "idle" /\ failed = ""
    /\ Len(hazards) >= 2 /\ i = Len(hazards)
    /\ hazards[1].label > hazards[2].label

\* C15 (SpecGenerate): when generateFloorPlan or identifyRisks has rejected the
\* flow is over, having sent nothing after that mutation and no mutation
\* twice, and both tables are as they were when it was started.
C15_GenerationFailureStopsFlow ==
    failed \in {"generateFloorPlan", "identifyRisks"} =>
        /\ pc = "idle"
        /\ calls = IF failed = "generateFloorPlan"
                      THEN <<"generateFloorPlan">>
                      ELSE <<"generateFloorPlan", "identifyRisks">>
        /\ answered = Len(calls)
        /\ <<maps, risks>> = before
        /\ newMapId = 0

\* C15, its case: identifyRisks has rejected in a flow started on a store that
\* held a map.
C15_Witness ==
    failed = "identifyRisks" /\ pc = "idle" /\ before[1] # {}

C17_PartialResultReturned ==
    failed = "addRisk" => DOMAIN localRisks = {r.id : r \in FlowRows}

\* C18 (as claimed; SpecGenerate): the errors shown for rejections of
\* different mutations of the flow have different messages.
C18_DistinctFailureReasons ==
    \A a \in toasts, b \in toasts : a.step # b.step => a.message # b.message

\* C30 (SpecLayout): on a canvas of at least 200 x 200 every cell centre lies
\* within [100, W-100] x [100, H-100], every position returned lies within
\* [80, W-80] x [80, H-80], and it is the jittered centre itself: the clamp has
\* changed nothing.
C30_ClampIdleOnPaddedCanvas ==
    (canvas[1] >= 2 * padding /\ canvas[2] >= 2 * padding) =>
        \A m \in Markers :
            LET xDen == 2 * Cols(total)
                yDen == 2 * Rows(total)
            IN /\ padding * xDen <= m.centre[1]
               /\ m.centre[1] <= (canvas[1] - padding) * xDen
               /\ padding * yDen <= m.centre[2]
               /\ m.centre[2] <= (canvas[2] - padding) * yDen
               /\ (padding - 20) * xDen <= m.pos[1]
               /\ m.pos[1] <= (canvas[1] - padding + 20) * xDen
               /\ (padding - 20) * yDen <= m.pos[2]
               /\ m.pos[2] <= (canvas[2] - padding + 20) * yDen
               /\ \E jx \in Jitters, jy \in Jitters :
                     m.pos = <<m.centre[1] + xDen * jx, m.centre[2] + yDen * jy>>

\* C30, its case: the last hazard of a grid with a last row that is not full
\* has been placed on the least padded canvas.
C30_Witness ==
    /\ canvas = <<200, 200>>
    /\ total = 3 /\ placed = total
    /\ \E m \in cur : m.index = total - 1

\* The table "Cores por Tipo de Risco" of the README.
ReadmeColor(type) ==
    CASE type = "acidental" -> "#FF6B6B"
      [] type = "chemical" -> "#FFD93D"
      [] type = "ergonomic" -> "#6BCB77"
      [] type = "physical" -> "#4D96FF"
      [] type = "biological" -> "#FF6B9D"
      [] OTHER -> "#999999"

\* C24 (as claimed; SpecGenerate): for each of the five categories and for any
\* other value, getRiskColor and getRiskTypeColor both give the colour of the
\* README table (gray for another value), and every risk a flow has stored
\* has the colour of its category.
C24_OneColourPerCategory ==
    /\ \A k \in DOMAIN riskCols : riskCols[k].color = ReadmeColor(riskCols[k].type)
    /\ \A type \in {TypeOf[k] : k \in DOMAIN TypeOf} \cup {"other"} :
          /\ getRiskColor(type) = ReadmeColor(type)
          /\ getRiskTypeColor(type) = ReadmeColor(type)

(***************************************************************************)
(* C22: riskMaps.create and risks.add answer either with an insertId that  *)
(* is a number other than 0 or with an error, and a result of the store    *)
(* without an identity is answered with an error.                          *)
(***************************************************************************)
C22_InsertIdOrError ==
    [][(\/ riskMaps_createRow(Caller, {TestCreateInput})
        \/ \E val \in AddInputs : risks_addRow(Caller, val))
       => /\ Len(response') = 1
          /\ response'[1].ok => response'[1].insertId \in Nat \ {0}
          /\ ~response'[1].ok => response'[1].error # ""
          /\ \A result \in DrizzleResults(nextMapId) \cup DrizzleResults(nextRiskId) :
                (result.head \subseteq {0} /\ result.insertId = 0)
                    => ~checkInsertId(insertIdOf(result)).ok]_vars

\* Both procedures have answered "no insertId" and with an identity.
C22_Witness ==
    /\ response = <<NoInsertId>>
    /\ nextMapId > TestMap + 1
    /\ nextRiskId > 1
    /\ \E k \in DOMAIN riskCols : TRUE

\* The answer of riskMaps.list holds each map of u once and no other map.
ListsMapsOf(u, list) ==
    /\ {list[k] : k \in DOMAIN list} = {m.id : m \in {x \in maps : x.userId = u}}
    /\ \A a, b \in DOMAIN list : a # b => list[a] # list[b]

\* C23 (as claimed; SpecCreate): riskMaps.list of user U answers with exactly
\* the maps of U, in the order in which they were created (ids are given in
\* that order), and with the empty list when U owns none.
C23_ListInCreationOrder ==
    [][\A u \in Users : riskMaps_list(u) =>
          LET list == response'[1].list IN
          /\ ListsMapsOf(u, list)
          /\ \A a, b \in DOMAIN list : a < b => list[a] < list[b]]_vars

(***************************************************************************)
(* C23 (amended): riskMaps.list of user U answers with exactly the maps of *)
(* U, ordered by created_at, maps with the same created_at in any order,   *)
(* and with the empty list when U owns none.                               *)
(***************************************************************************)
C23_ListByCreatedAt ==
    [][\A u \in Users : riskMaps_list(u) =>
          LET list == response'[1].list IN
          /\ ListsMapsOf(u, list)
          /\ \A a, b \in DOMAIN list :
                a < b => mapCols[list[a]].createdAt <= mapCols[list[b]].createdAt
          /\ (\A m \in maps : m.userId # u) => list = <<>>]_vars

\* riskMaps.list has answered with two maps created at different times.
C23_Witness ==
    /\ Len(response) = 1
    /\ "list" \in DOMAIN response[1]
    /\ Len(response[1].list) = 2
    /\ mapCols[response[1].list[1]].createdAt < mapCols[response[1].list[2]].createdAt

\* A step of a riskMaps.delete of map m, or the failure of its process.
DeleteStep(m) ==
    \/ \E u \in Users : riskMaps_deleteRisks(u, m)
    \/ riskMaps_deleteMap(m)
    \/ crashInDeleteRisks(m)
    \/ crashAfterDeleteRisks(m)

(***************************************************************************)
(* C25: the risks of a map are removed before its row, so every step of a  *)
(* riskMaps.delete of a map, and a failure of the process during or        *)
(* between the two statements, leaves the store with the map and a subset  *)
(* of its risks, or with neither the map nor a risk of it.                 *)
(***************************************************************************)
C25_RisksBeforeMap ==
    [][\A m \in MapIds :
          (DeleteStep(m) /\ (MapExists(m) \/ \A r \in risks : r.mapId # m)) =>
              /\ {r \in risks' : r.mapId = m} \subseteq {r \in risks : r.mapId = m}
              /\ {r \in risks' : r.mapId # m} = {r \in risks : r.mapId # m}
              /\ \/ \E x \in maps' : x.id = m /\ x \in maps
                 \/ /\ \A x \in maps' : x.id # m
                    /\ \A r \in risks' : r.mapId # m]_vars

\* Between the two statements of a delete: the map is there, its risks,
\* which had been added, are not.
C25_Witness ==
    /\ \E m \in deleting : MapExists(m)
    /\ nextMapId = 2
    /\ nextRiskId > 1
    /\ risks = {}

\* The response holds, as text, a JSON array of hazards of the schema.
SchemaValid(llm) ==
    /\ llm.text
    /\ \E list \in llm.json :
          \A k \in DOMAIN list :
              list[k].type \in RiskTypes /\ list[k].severity \in Severities

\* C21 (as claimed; SpecGenerate): when the response of the model is not a
\* list of hazards valid for the schema (no text content, text that is not
\* JSON, a value outside an enumeration), ai.identifyRisks fails, and the
\* flow with it; no list, empty or not, is taken from such a response.
C21_InvalidResponseIsAnError ==
    [][\A llm \in LlmResponses :
          (~SchemaValid(llm) /\ identifyRisksAnswers(llm)) =>
              (failed' = "identifyRisks" /\ pc' = "idle" /\ hazards' = hazards)]_vars

(***************************************************************************)
(* C26: when every awaited call settles, a generation flow that was        *)
(* started, and with it isLoading set, ends with isLoading cleared,        *)
(* whether it ends after its last step or at a step that failed; and       *)
(* isLoading is set as long as the flow awaits a call.                     *)
(***************************************************************************)
C26_LoadingClearedInTheEnd ==
    /\ isLoading ~> (~isLoading /\ pc = "idle")
    /\ [](pc # "idle" => isLoading)

\* A flow has ended at a rejected risks.add, another after its last step,
\* and isLoading is cleared.
C26_Witness ==
    /\ pc = "idle" /\ ~isLoading
    /\ failed = ""
    /\ nextMapId > 2
    /\ Len(newRisks) = Len(hazards) /\ Len(hazards) > 0
    /\ toasts # {}

\* The editor shows the diagram of the persisted map that mapId names.
ShowsItsMap ==
    /\ mapId # 0
    /\ MapExists(mapId)
    /\ mapCols[mapId].floorPlanSvg = floorPlanSvg

\* C27 (as claimed; SpecSession): when no flow runs and the editor displays
\* a diagram, mapId names the persisted map with that diagram, also after a
\* flow that failed and after a second flow; so a risk added by hand is
\* attached to the map on display.
C27_MapIdIsTheMapShown ==
    [][/\ (pc' = "idle" /\ floorPlanSvg' # "") => ShowsItsMap'
       /\ \A resolves \in BOOLEAN :
             (handleAddRisk(<<100, 100>>, resolves) /\ risks' # risks) => ShowsItsMap]_vars

\* C28 (as claimed; SpecSession): when a flow ends after its last step, the
\* local list of the editor holds the risks persisted for the map of mapId,
\* each at its position, also when a risk was added or deleted by hand while
\* the loop was running.
C28_LocalEqualsPersisted ==
    [][(pc # "idle" /\ pc' = "idle" /\ failed' = "") =>
          /\ DOMAIN localRisks' = {r.id : r \in {x \in risks' : x.mapId = mapId'}}
          /\ \A r \in risks' : r.mapId = mapId' => localRisks'[r.id] = r.pos]_vars

\* C29 (as claimed; SpecEditor): once a marker is deleted, the save of a drag
\* of it that is still pending is cancelled or does nothing: the timer of
\* the debounce sends no risks.updatePosition for the id of a deleted risk.
C29_NoSaveAfterDelete ==
    [][\A t \in timers :
          (EditorTimerFire(t) /\ t.args[1] \notin {r.id : r \in risks}) =>
              inFlight' = inFlight]_vars

====
